---- MODULE Spec2Model ----
(***************************************************************************)
(* The shopping-list HTTP service of backend/server.js: the table          *)
(* shopping_items and the six /api handlers that read and write it.        *)
(*                                                                         *)
(* A handler step is one pool.query together with the synchronous code     *)
(* around it.  Every handler but GET /api/stats awaits a single query, so  *)
(* it is one action; GET /api/stats awaits three queries and is three      *)
(* actions.  Spec handles one request at a time; SpecConcurrent lets the   *)
(* other handlers run between the queries of GET /api/stats, as the        *)
(* runtime does with concurrent requests.                                  *)
(*                                                                         *)
(* req and res hold the exchange the last handler step completed, until    *)
(* Finish sends it off.                                                    *)
(*                                                                         *)
(* Request inputs are drawn from the types the interface declares (an      *)
(* integer id, a string name, an integer quantity, a boolean purchased),   *)
(* each body field possibly absent.  Any query may fail before the store   *)
(* executes it, which the handler's catch turns into a 500.  Each INSERT   *)
(* reads a later CURRENT_TIMESTAMP than the one before it.                 *)
(***************************************************************************)
EXTENDS Integers, Sequences, FiniteSets, TLC

\* ---------------------------------------------------------------- bounds
\* Largest value the SERIAL sequence of shopping_items.id may reach.
MaxSeq == 2

\* ------------------------------------------------------- program constants
\* quantity INTEGER DEFAULT 1, and the handler's own default.
DefaultQuantity == 1

\* --------------------------------------------------------------- values
\* A value that may be missing is a sequence of length at most one: <<>> is
\* JavaScript's undefined (a field the body does not carry), which node-pg
\* binds as SQL NULL, and <<v>> is the value v.
NULL == <<>>

Opt(S) == {NULL} \cup {<<v>> : v \in S}

Names == {"", "Milk"}

Quantities == {-3, 0, 2}

Ids == 1..MaxSeq

NoBody == [name |-> NULL, quantity |-> NULL, purchased |-> NULL]

Request(method, path, id, body) ==
    [method |-> method, path |-> path, id |-> id, body |-> body]

\* res.json(...) after res.status(...): data is the sequence of records the
\* envelope carries (one row, the listed rows, the counts), text its error or
\* message.
Json(status, data, text) ==
    [status |-> status, success |-> TRUE, data |-> data, text |-> text]

Error(status, text) ==
    [status |-> status, success |-> FALSE, data |-> <<>>, text |-> text]

\* No exchange waiting to be sent.
NoRequest == Request("", "", 0, NoBody)

NoResponse == [status |-> 0, success |-> FALSE, data |-> <<>>, text |-> ""]

VARIABLES
    items,          \* the rows of table shopping_items
    seq,            \* last value of the sequence behind id SERIAL
    now,            \* the store's clock at the latest INSERT
    req,            \* the request just answered (NoRequest once sent off)
    res,            \* its response
    statsPc,        \* GET /api/stats: the query its handler awaits next
    total,          \* GET /api/stats: result of the first count
    purchased,      \* GET /api/stats: result of the second count
    deleted         \* history: ids removed by a DELETE

vars == <<items, seq, now, req, res, statsPc, total, purchased, deleted>>

statsVars == <<statsPc, total, purchased>>

\* ------------------------------------------------------------ the store
\* WHERE id = $1
WhereId(rows, id) == {r \in rows : r.id = id}

\* Mutant of Coalesce: SET column = $n, the parameter written as it is.
CoalesceOverwrite(param, column) == param

\* COALESCE($n, column)
Coalesce(param, column) == IF param # NULL THEN param ELSE column

\* Mutant of Nextval: the id computed from the rows present, as COUNT(*) + 1.
NextvalFromCount(s) == Cardinality(items) + 1

\* nextval of the sequence that id SERIAL creates
Nextval(s) == s + 1

\* Mutant of InsertedRow: column purchased declared without DEFAULT FALSE.
InsertedRowNoDefault(s, name, quantity, t) ==
    [id |-> s + 1, name |-> name, quantity |-> quantity,
     purchased |-> NULL, created_at |-> t]

\* DEFAULT CURRENT_TIMESTAMP: the clock value an INSERT reads when the one
\* before it read n.  Each INSERT reads a later value than the one before.
CurrentTimestamp(n) == n + 1

\* The row INSERT INTO shopping_items (name, quantity) VALUES ($1, $2) makes:
\* id from the sequence, purchased DEFAULT FALSE, created_at DEFAULT
\* CURRENT_TIMESTAMP.
InsertedRow(s, name, quantity, t) ==
    [id |-> Nextval(s), name |-> name, quantity |-> quantity,
     purchased |-> <<FALSE>>, created_at |-> t]

\* UPDATE shopping_items SET name = COALESCE($1, name), quantity =
\* COALESCE($2, quantity), purchased = COALESCE($3, purchased)
UpdatedRow(r, name, quantity, pur) ==
    [r EXCEPT !.name = Coalesce(name, @),
              !.quantity = Coalesce(quantity, @),
              !.purchased = Coalesce(pur, @)]

\* ORDER BY purchased ASC: FALSE sorts before TRUE, and NULL last.
PurchasedRank(r) ==
    IF r.purchased = <<FALSE>> THEN 0 ELSE IF r.purchased = <<TRUE>> THEN 1 ELSE 2

\* Mutant of OrderBy: ORDER BY purchased ASC, created_at ASC.
OrderByOldestFirst(r, s) ==
    \/ PurchasedRank(r) < PurchasedRank(s)
    \/ PurchasedRank(r) = PurchasedRank(s) /\ r.created_at <= s.created_at

\* ORDER BY purchased ASC, created_at DESC: row r may stand before row s.
OrderBy(r, s) ==
    \/ PurchasedRank(r) < PurchasedRank(s)
    \/ PurchasedRank(r) = PurchasedRank(s) /\ r.created_at >= s.created_at

\* The results SELECT * FROM shopping_items ORDER BY ... may return: every row
\* once, in an order the ORDER BY allows (rows that tie come in any order).
SelectOrdered(rows) ==
    {s \in [1..Cardinality(rows) -> rows] :
        /\ \A i, j \in 1..Cardinality(rows) : i # j => s[i] # s[j]
        /\ \A i, j \in 1..Cardinality(rows) : i < j => OrderBy(s[i], s[j])}

\* SELECT COUNT(*) as total FROM shopping_items
CountTotal(rows) == Cardinality(rows)

\* SELECT COUNT(*) as purchased FROM shopping_items WHERE purchased = true
CountPurchased(rows) == Cardinality({r \in rows : r.purchased = <<TRUE>>})

\* SELECT COUNT(*) as pending FROM shopping_items WHERE purchased = false
CountPending(rows) == Cardinality({r \in rows : r.purchased = <<FALSE>>})

\* ------------------------------------------------------------- handlers
\* Mutant of NameMissing: if (name === undefined).
NameUndefined(name) == name = NULL

\* if (!name)
NameMissing(name) == name = NULL \/ name = <<"">>

\* Mutant of Qty: const qty = quantity ? quantity : 1.
QtyTruthy(quantity) ==
    IF quantity # NULL /\ quantity # <<0>> THEN quantity ELSE <<DefaultQuantity>>

\* const qty = quantity && quantity > 0 ? quantity : 1
Qty(quantity) ==
    IF quantity # NULL /\ quantity # <<0>> /\ quantity[1] > 0
    THEN quantity ELSE <<DefaultQuantity>>

\* Mutant of NoRows: if (result.rows.length !== 0).
SomeRows(rows) == Cardinality(rows) # 0

\* if (result.rows.length === 0)
NoRows(rows) == Cardinality(rows) = 0

StatsRequest == Request("GET", "/api/stats", 0, NoBody)

Init ==
    /\ items = {}
    /\ seq = 0
    /\ now = 0
    /\ req = NoRequest
    /\ res = NoResponse
    /\ statsPc = "total"
    /\ total = 0
    /\ purchased = 0
    /\ deleted = {}

\* the response is sent and the exchange is over
Finish ==
    /\ req # NoRequest
    /\ req' = NoRequest
    /\ res' = NoResponse
    /\ UNCHANGED <<items, seq, now, deleted, statsVars>>

\* app.get('/api/items')
GetItems ==
    /\ req = NoRequest
    /\ req' = Request("GET", "/api/items", 0, NoBody)
    /\ \/ \E rows \in SelectOrdered(items) : res' = Json(200, rows, "")
       \/ res' = Error(500, "Error fetching items")
    /\ UNCHANGED <<items, seq, now, deleted, statsVars>>

\* app.get('/api/items/:id')
GetItem ==
    \E id \in Ids :
        /\ req = NoRequest
        /\ req' = Request("GET", "/api/items/:id", id, NoBody)
        /\ \/ LET rows == WhereId(items, id) IN
                IF NoRows(rows)
                THEN res' = Error(404, "Item not found")
                ELSE \E r \in rows : res' = Json(200, <<r>>, "")
           \/ res' = Error(500, "Error fetching item")
        /\ UNCHANGED <<items, seq, now, deleted, statsVars>>

\* app.post('/api/items')
PostItem ==
    \E name \in Opt(Names), quantity \in Opt(Quantities) :
        /\ req = NoRequest
        /\ req' = Request("POST", "/api/items", 0,
                          [name |-> name, quantity |-> quantity, purchased |-> NULL])
        /\ UNCHANGED <<deleted, statsVars>>
        /\ IF NameMissing(name)
           THEN /\ res' = Error(400, "Item name is required")
                /\ UNCHANGED <<items, seq, now>>
           ELSE \/ LET t == CurrentTimestamp(now)
                      r == InsertedRow(seq, name, Qty(quantity), t)
                  IN  /\ seq < MaxSeq
                      /\ items' = items \cup {r}
                      /\ seq' = Nextval(seq)
                      /\ now' = t
                      /\ res' = Json(201, <<r>>, "")
                \/ /\ res' = Error(500, "Error creating item")
                   /\ UNCHANGED <<items, seq, now>>

\* app.put('/api/items/:id')
PutItem ==
    \E id \in Ids, name \in Opt(Names), quantity \in Opt(Quantities),
       pur \in Opt(BOOLEAN) :
        /\ req = NoRequest
        /\ req' = Request("PUT", "/api/items/:id", id,
                          [name |-> name, quantity |-> quantity, purchased |-> pur])
        /\ UNCHANGED <<seq, now, deleted, statsVars>>
        /\ \/ LET rows == WhereId(items, id) IN
                IF NoRows(rows)
                THEN /\ res' = Error(404, "Item not found")
                     /\ UNCHANGED items
                ELSE \E r \in rows :
                        LET u == UpdatedRow(r, name, quantity, pur) IN
                        /\ items' = (items \ rows) \cup {u}
                        /\ res' = Json(200, <<u>>, "")
           \/ /\ res' = Error(500, "Error updating item")
              /\ UNCHANGED items

\* app.delete('/api/items/:id')
DeleteItem ==
    \E id \in Ids :
        /\ req = NoRequest
        /\ req' = Request("DELETE", "/api/items/:id", id, NoBody)
        /\ UNCHANGED <<seq, now, statsVars>>
        /\ \/ LET rows == WhereId(items, id) IN
                IF NoRows(rows)
                THEN /\ res' = Error(404, "Item not found")
                     /\ UNCHANGED <<items, deleted>>
                ELSE /\ items' = items \ rows
                     /\ deleted' = deleted \cup {id}
                     /\ res' = Json(200, <<>>, "Item deleted")
           \/ /\ res' = Error(500, "Error deleting item")
              /\ UNCHANGED <<items, deleted>>

\* catch (err) of app.get('/api/stats')
StatsFailed ==
    /\ req' = StatsRequest
    /\ res' = Error(500, "Error fetching stats")
    /\ statsPc' = "total"
    /\ total' = 0
    /\ purchased' = 0

\* app.get('/api/stats'), up to the first await: the count of all rows
StatsTotal ==
    /\ statsPc = "total"
    /\ req = NoRequest
    /\ \/ /\ total' = CountTotal(items)
          /\ statsPc' = "purchased"
          /\ UNCHANGED <<purchased, req, res>>
       \/ StatsFailed
    /\ UNCHANGED <<items, seq, now, deleted>>

\* app.get('/api/stats'), the second await: the count of purchased rows
StatsPurchased ==
    /\ statsPc = "purchased"
    /\ req = NoRequest
    /\ \/ /\ purchased' = CountPurchased(items)
          /\ statsPc' = "pending"
          /\ UNCHANGED <<total, req, res>>
       \/ StatsFailed
    /\ UNCHANGED <<items, seq, now, deleted>>

\* app.get('/api/stats'), the third await and the response
StatsPending ==
    /\ statsPc = "pending"
    /\ req = NoRequest
    /\ \/ /\ req' = StatsRequest
          /\ res' = Json(200, <<[total |-> total, purchased |-> purchased,
                                 pending |-> CountPending(items)]>>, "")
          /\ statsPc' = "total"
          /\ total' = 0
          /\ purchased' = 0
       \/ StatsFailed
    /\ UNCHANGED <<items, seq, now, deleted>>

\* No GET /api/stats is between its queries.
StatsIdle == statsPc = "total"

\* One request at a time: a handler runs when no other is between its queries.
Next ==
    \/ StatsIdle /\ GetItems
    \/ StatsIdle /\ GetItem
    \/ StatsIdle /\ PostItem
    \/ StatsIdle /\ PutItem
    \/ StatsIdle /\ DeleteItem
    \/ StatsTotal
    \/ StatsPurchased
    \/ StatsPending
    \/ Finish

Spec == Init /\ [][Next]_vars

\* Concurrent requests: the /api/items handlers run between the queries of
\* GET /api/stats.
NextConcurrent ==
    \/ GetItems
    \/ GetItem
    \/ PostItem
    \/ PutItem
    \/ DeleteItem
    \/ StatsTotal
    \/ StatsPurchased
    \/ StatsPending
    \/ Finish

SpecConcurrent == Init /\ [][NextConcurrent]_vars

TypeOK ==
    /\ seq \in 0..MaxSeq
    /\ now = seq
    /\ \A r \in items : r.id \in 1..seq /\ r.created_at \in 0..now
    /\ statsPc \in {"total", "purchased", "pending"}

\* ----------------------------------------------------------------- claims
\* The last step was the handler of `method path` answering.
Answered(method, path) ==
    /\ req = NoRequest
    /\ req'.method = method
    /\ req'.path = path

\* C1: every stored item has quantity >= 1, whatever POST, PUT and DELETE
\* requests were handled.
C1_QuantityAtLeastOne ==
    \A r \in items : r.quantity # NULL /\ r.quantity[1] >= 1

\* C2: a GET /api/stats whose three queries run with no other request between
\* them answers counts with total = purchased + pending, and no stored item has
\* a purchased value that is neither true nor false.
C2_StatsTotalIsSum ==
    /\ \A r \in items : r.purchased \in {<<TRUE>>, <<FALSE>>}
    /\ (req = StatsRequest /\ res.status = 200) =>
          res.data[1].total = res.data[1].purchased + res.data[1].pending

C2_Witness ==
    /\ req = StatsRequest
    /\ res.status = 200
    /\ res.data[1] = [total |-> 2, purchased |-> 1, pending |-> 1]

\* C3: a POST /api/items with a non-empty name that the store executes inserts
\* exactly one new row and answers 201 with it; the row has the supplied name,
\* the supplied quantity if that is present and > 0 and 1 otherwise, purchased
\* false, and an id no stored item has.  If the store rejects the INSERT the
\* answer is 500 and no row is inserted.
C3_PostCreates ==
    [][(Answered("POST", "/api/items")
          /\ req'.body.name # NULL /\ req'.body.name # <<"">>) =>
        \/ /\ res'.status = 500
           /\ items' = items
        \/ /\ res'.status = 201
           /\ res'.success
           /\ Len(res'.data) = 1
           /\ LET r == res'.data[1]
                  q == req'.body.quantity
              IN  /\ r \notin items
                  /\ items' = items \cup {r}
                  /\ \A x \in items : x.id # r.id
                  /\ r.name = req'.body.name
                  /\ r.quantity = IF q # NULL /\ q[1] > 0 THEN q ELSE <<1>>
                  /\ r.purchased = <<FALSE>>]_vars

C3_Witness ==
    /\ req.method = "POST"
    /\ res.status = 201
    /\ req.body.quantity = <<-3>>
    /\ res.data[1].quantity = <<1>>
    /\ res.data[1].id = 2
    /\ Cardinality(items) = 2

\* C4: a POST /api/items whose name is absent or empty is answered 400 with
\* success false, and leaves the stored items and the id sequence as they were.
C4_PostWithoutName ==
    [][(Answered("POST", "/api/items")
          /\ (req'.body.name = NULL \/ req'.body.name = <<"">>)) =>
        /\ res'.status = 400
        /\ ~res'.success
        /\ items' = items
        /\ seq' = seq]_vars

C4_Witness ==
    /\ req.method = "POST"
    /\ req.body.name = <<"">>
    /\ res.status = 400
    /\ items # {}

\* C5: GET, PUT and DELETE on /api/items/:id, when the store executes the
\* query: if no stored item has the id the answer is 404 with success false and
\* the stored items are unchanged; if one has, the answer is 200 with success
\* true.
C5_NotFound ==
    [][(\E m \in {"GET", "PUT", "DELETE"} : Answered(m, "/api/items/:id")) =>
        \/ res'.status = 500
        \/ /\ \A r \in items : r.id # req'.id
           /\ res'.status = 404
           /\ ~res'.success
           /\ items' = items
        \/ /\ \E r \in items : r.id = req'.id
           /\ res'.status = 200
           /\ res'.success]_vars

C5_Witness ==
    /\ req.method = "PUT"
    /\ req.id \in deleted
    /\ res.status = 404
    /\ ~res.success
    /\ items # {}

Field(body, row, f) == IF body[f] = NULL THEN row[f] ELSE body[f]

\* C6: a successful PUT /api/items/:id replaces the item by one with the same
\* id and created_at in which every field the body leaves out keeps its stored
\* value and every field it supplies has the supplied value; every other item
\* is unchanged and the response carries the updated item.
C6_PutChangesOnlySupplied ==
    [][(Answered("PUT", "/api/items/:id") /\ res'.status = 200) =>
        \E r \in items :
            /\ r.id = req'.id
            /\ Len(res'.data) = 1
            /\ LET u == res'.data[1] IN
                /\ items' = (items \ {r}) \cup {u}
                /\ u.id = r.id
                /\ u.created_at = r.created_at
                /\ \A f \in {"name", "quantity", "purchased"} :
                      u[f] = Field(req'.body, r, f)]_vars

C6_Witness ==
    /\ req.method = "PUT"
    /\ req.body = [name |-> NULL, quantity |-> NULL, purchased |-> <<TRUE>>]
    /\ res.status = 200
    /\ res.data[1].name = <<"Milk">>
    /\ res.data[1].quantity = <<2>>
    /\ res.data[1].purchased = <<TRUE>>
    /\ Cardinality(items) = 2

\* C7: a successful DELETE /api/items/:id removes the item with that id and no
\* other, which lowers the total that /api/stats counts by exactly one; no item
\* ever has the id of a deleted item again, so a later GET on that id that the
\* store executes answers 404.
C7_DeleteRemoves ==
    /\ [][(Answered("DELETE", "/api/items/:id") /\ res'.status = 200) =>
            \E r \in items :
                /\ r.id = req'.id
                /\ items' = items \ {r}
                /\ CountTotal(items') = CountTotal(items) - 1]_vars
    /\ [](\A r \in items : r.id \notin deleted)
    /\ []((req.method = "GET" /\ req.path = "/api/items/:id" /\ req.id \in deleted)
            => res.status \in {404, 500})

C7_Witness ==
    /\ req.method = "GET"
    /\ req.path = "/api/items/:id"
    /\ req.id \in deleted
    /\ res.status = 404
    /\ \E r \in items : r.id > req.id

\* C8: a successful GET /api/items lists every stored item exactly once, all
\* unpurchased items before all purchased ones and, within each group, in
\* order of decreasing created_at; and no request changes the created_at of a
\* stored item, so marking it purchased or not leaves its place by creation
\* time as it was.
C8_ListOrder ==
    /\ []((req.method = "GET" /\ req.path = "/api/items" /\ res.status = 200) =>
            /\ Len(res.data) = Cardinality(items)
            /\ {res.data[i] : i \in 1..Len(res.data)} = items
            /\ \A i, j \in 1..Len(res.data) : i < j =>
                  /\ res.data[i].purchased = <<TRUE>> => res.data[j].purchased = <<TRUE>>
                  /\ res.data[i].purchased = res.data[j].purchased =>
                        res.data[i].created_at >= res.data[j].created_at)
    /\ [][\A r \in items, u \in items' : r.id = u.id => r.created_at = u.created_at]_vars

\* A created, then B, then A marked purchased: the list is [B, A].
C8_Witness ==
    /\ req.method = "GET"
    /\ req.path = "/api/items"
    /\ res.status = 200
    /\ Len(res.data) = 2
    /\ res.data[1].id = 2
    /\ res.data[1].purchased = <<FALSE>>
    /\ res.data[2].id = 1
    /\ res.data[2].purchased = <<TRUE>>
    /\ res.data[2].created_at < res.data[1].created_at

\* C9: every stored item has a non-empty name, whatever create, update and
\* delete requests were handled.
C9_NameNonEmpty ==
    \A r \in items : r.name # NULL /\ r.name # <<"">>

\* C10: a GET /api/stats answers counts with total = purchased + pending also
\* when create, update or delete requests commit between its count queries.
\* (Every single store state has such counts, C2, so counts taken from one
\* store state would satisfy the equation.)
C10_StatsConsistentUnderConcurrency ==
    (req = StatsRequest /\ res.status = 200) =>
        res.data[1].total = res.data[1].purchased + res.data[1].pending
====
